---- MODULE Spec2Model ----
(***************************************************************************)
(* printable_binary.c: a byte <-> printable UTF-8 codec.  The module       *)
(* models main() as a process: table construction, option parsing, the     *)
(* decode path (clean_decode_input, decode_data), the encode path          *)
(* (encode_data, format_output), the two disassembly paths, and a shell    *)
(* pipe that feeds one run's standard output to a second run in decode     *)
(* mode.  Memory allocation is taken to succeed: the exits on a failed     *)
(* malloc, calloc or realloc are not modelled.                             *)
(***************************************************************************)
EXTENDS Integers, Sequences, FiniteSets, TLC

VARIABLES
    pc,                  \* position in main()
    run,                 \* 1: first process, 2: the process after the pipe
    encode_table,        \* utf8_sequence_t[256]; <<>> is length 0 (calloc)
    decode_table,        \* uint8_t[65536], kept sparse: unwritten keys read 0
    decode_table_valid,  \* bool[65536], kept as the set of keys set to true
    opts,                \* options_t
    tty,                 \* isatty(STDIN_FILENO) as main observed it: "terminal", "pipe", "unknown"
    input,               \* buffer read by read_file
    cleaned,             \* output of clean_decode_input
    i,                   \* decode_data's scan position
    decoded,             \* decode_data's output buffer
    encoded,             \* output of encode_data
    formatted,           \* output of format_output
    stdout,              \* bytes written to standard output
    stderr,              \* data bytes written to standard error (passthrough)
    status,              \* "running", "exit 0", "exit 1", or "SIGFPE"
    prev                 \* the first run's input and options, once piped

vars == <<pc, run, encode_table, decode_table, decode_table_valid, opts, tty,
          input, cleaned, i, decoded, encoded, formatted, stdout, stderr,
          status, prev>>

tables == <<encode_table, decode_table, decode_table_valid>>

(***************************************************************************)
(* Bounds of the model and constants of the program.                       *)
(***************************************************************************)
MaxLen == 2
MaxGroup == 2
INITIAL_BUFFER_SIZE == 8192
INT_MAX == 2147483647

Byte == 0..255

\* The bytes the sampled inputs are built from.  As encoder input: a 3-byte
\* override, the space, a plain ASCII byte, a byte of the C3 range and two of
\* the C4 range.  As decoder input: unmatched bytes, a whitespace byte, a
\* matched ASCII byte, a continuation byte and lead bytes of estimated
\* lengths 2 and 3.
SampleBytes == {\H00, \H20, \H41, \H80, \HC3, \HE2}

RECURSIVE Repeat(_, _)
Repeat(b, n) == IF n = 0 THEN <<>> ELSE <<b>> \o Repeat(b, n - 1)

\* The 256 byte values in increasing order, 32 to a buffer.
ByteRun(c) == [k \in 1..32 |-> (32 * c) + k - 1]

ByteRuns == { ByteRun(c) : c \in 0..7 }

\* Inputs chosen by hand: the 20-character example of
\* the formatter, whitespace of all four kinds, and decoder inputs that are
\* no encoder output.
PickedInputs ==
    { Repeat(\H41, 20),
      <<\H41, \H09, \H42, \H0A, \H0D, \H20, \H43>>,
      <<\H00, \H41, \H80, \HC0, \H01>>,
      <<\HE2, \H88, \H85>>,
      <<\HE2, \H88, \H85, \H41, \HC3, \H80, \HC4, \H80>>,
      <<\HEC, \H8A, \HAF>>,
      <<\HE0, \H80, \H41>>,
      <<\HE2, \HC8, \H85>>,
      <<\HFE, \H57>>,
      <<\HFE, \H57, \H41, \H41>>,
      <<\HF0, \H41, \H41, \H41>>,
      <<\HC3, \H20, \H80>>,
      <<\H21, \H41, \HC3>> }

SeqsUpTo(S, n) == UNION { [1..k -> S] : k \in 0..n }

Inputs == SeqsUpTo(SampleBytes, MaxLen) \cup ByteRuns \cup PickedInputs

(***************************************************************************)
(* buffer_t.  A buffer is [data, capacity]; ok = FALSE records that         *)
(* buffer_append took its overflow exit.                                   *)
(***************************************************************************)
buffer_init(capacity) ==
    [data |-> <<>>,
     capacity |-> IF capacity = 0 THEN INITIAL_BUFFER_SIZE ELSE capacity,
     ok |-> TRUE]

buffer_append(buf, data) ==
    IF ~buf.ok THEN buf
    ELSE IF Len(buf.data) + Len(data) > buf.capacity
         THEN [buf EXCEPT !.ok = FALSE]
         ELSE [buf EXCEPT !.data = buf.data \o data]

buffer_append_char(buf, c) == buffer_append(buf, <<c>>)

(***************************************************************************)
(* The tables.                                                             *)
(***************************************************************************)
\* strlen + memcpy: the bytes before the first NUL.
RECURSIVE make_utf8(_)
make_utf8(bytes) ==
    IF bytes = <<>> \/ Head(bytes) = 0 THEN <<>>
    ELSE <<Head(bytes)>> \o make_utf8(Tail(bytes))

\* utf8_hash with the middle byte of a 3-byte sequence left out.
utf8_hash_NoMiddle(bytes, len) ==
    IF len = 1 THEN bytes[1]
    ELSE IF len = 2 THEN (bytes[1] * 256 + bytes[2]) % 65536
    ELSE IF len = 3
         THEN (((bytes[1] % 16) * 4096) + (bytes[3] % 64)) % 65536
    ELSE 0

utf8_hash(bytes, len) ==
    IF len = 1 THEN bytes[1]
    ELSE IF len = 2 THEN (bytes[1] * 256 + bytes[2]) % 65536
    ELSE IF len = 3
         THEN (((bytes[1] % 16) * 4096) + ((bytes[2] % 64) * 64) + (bytes[3] % 64)) % 65536
    ELSE 0

special_sequences ==
       (0 :> <<\HE2, \H88, \H85>>)
    @@ (1 :> <<\HC2, \HAF>>)
    @@ (2 :> <<\HC2, \HAB>>)
    @@ (3 :> <<\HC2, \HBB>>)
    @@ (4 :> <<\HCF, \H9E>>)
    @@ (5 :> <<\HC2, \HBF>>)
    @@ (6 :> <<\HC2, \HA1>>)
    @@ (7 :> <<\HC2, \HAA>>)
    @@ (8 :> <<\HE2, \H8C, \HAB>>)
    @@ (9 :> <<\HE2, \H87, \HA5>>)
    @@ (10 :> <<\HE2, \H87, \HA9>>)
    @@ (11 :> <<\HE2, \H8A, \HA7>>)
    @@ (12 :> <<\HC2, \HA7>>)
    @@ (13 :> <<\HE2, \H8F, \H8E>>)
    @@ (14 :> <<\HC8, \HAF>>)
    @@ (15 :> <<\HCA, \H98>>)
    @@ (16 :> <<\HC6, \H94>>)
    @@ (17 :> <<\HC2, \HB9>>)
    @@ (18 :> <<\HC2, \HB2>>)
    @@ (19 :> <<\HC2, \HBA>>)
    @@ (20 :> <<\HC2, \HB3>>)
    @@ (21 :> <<\HC2, \HB5>>)
    @@ (22 :> <<\HC9, \HA8>>)
    @@ (23 :> <<\HC2, \HAC>>)
    @@ (24 :> <<\HC2, \HA9>>)
    @@ (25 :> <<\HC2, \HA6>>)
    @@ (26 :> <<\HC6, \HB5>>)
    @@ (27 :> <<\HE2, \H8E, \H8B>>)
    @@ (28 :> <<\HCE, \H9E>>)
    @@ (29 :> <<\HC7, \H81>>)
    @@ (30 :> <<\HC7, \H80>>)
    @@ (31 :> <<\HC2, \HB6>>)
    @@ (32 :> <<\HE2, \H90, \HA3>>)
    @@ (33 :> <<\HEF, \HB9, \H97>>)
    @@ (34 :> <<\HCB, \HB5>>)
    @@ (35 :> <<\HE2, \H99, \HAF>>)
    @@ (36 :> <<\HEF, \HB9, \HA9>>)
    @@ (37 :> <<\HEF, \HB9, \HAA>>)
    @@ (38 :> <<\HEF, \HB9, \HA0>>)
    @@ (39 :> <<\HCA, \HBC>>)
    @@ (40 :> <<\HE2, \H9D, \HA8>>)
    @@ (41 :> <<\HE2, \H9D, \HA9>>)
    @@ (42 :> <<\HEF, \HB9, \HA1>>)
    @@ (43 :> <<\HEF, \HB9, \HA2>>)
    @@ (45 :> <<\HEF, \HB9, \HA3>>)
    @@ (47 :> <<\HE2, \H81, \H84>>)
    @@ (58 :> <<\HEF, \HB9, \H95>>)
    @@ (59 :> <<\HEF, \HB9, \H94>>)
    @@ (61 :> <<\HEF, \HB9, \HA6>>)
    @@ (63 :> <<\HEF, \HB9, \H96>>)
    @@ (64 :> <<\HEF, \HB9, \HAB>>)
    @@ (91 :> <<\HE2, \H9F, \HA6>>)
    @@ (92 :> <<\HE2, \HA7, \HB9>>)
    @@ (93 :> <<\HE2, \H9F, \HA7>>)
    @@ (96 :> <<\HCB, \H8B>>)
    @@ (123 :> <<\HE2, \H9D, \HB4>>)
    @@ (124 :> <<\HE2, \H88, \HA3>>)
    @@ (125 :> <<\HE2, \H9D, \HB5>>)
    @@ (126 :> <<\HCB, \H9C>>)
    @@ (127 :> <<\HE2, \H8C, \HA6>>)
    @@ (152 :> <<\HC5, \H8C>>)
    @@ (184 :> <<\HC5, \H8F>>)

HasSpecial(b) == b \in DOMAIN special_sequences

\* EncodeEntry with the 128..191 test off by one (b < 191): 191 gets no Sequence.
EncodeEntry_OffByOne(b) ==
    IF HasSpecial(b) THEN make_utf8(special_sequences[b] \o <<0>>)
    ELSE IF b >= 33 /\ b <= 126 /\ ~HasSpecial(b) THEN make_utf8(<<b, 0>>)
    ELSE IF b >= 128 /\ b < 191 /\ b # 152 /\ b # 184 THEN make_utf8(<<\HC3, b, 0>>)
    ELSE IF b >= 193 /\ b # 184 THEN make_utf8(<<\HC4, b - 192 + 128, 0>>)
    ELSE <<>>

\* EncodeEntry with the 192..255 rule reusing the 0xC3 prefix of 128..191.
EncodeEntry_SamePrefix(b) ==
    IF HasSpecial(b) THEN make_utf8(special_sequences[b] \o <<0>>)
    ELSE IF b >= 33 /\ b <= 126 /\ ~HasSpecial(b) THEN make_utf8(<<b, 0>>)
    ELSE IF b >= 128 /\ b < 192 /\ b # 152 /\ b # 184 THEN make_utf8(<<\HC3, b, 0>>)
    ELSE IF b >= 192 /\ b # 184 THEN make_utf8(<<\HC3, b - 192 + 128, 0>>)
    ELSE <<>>

\* EncodeEntry with the printable range tested before the curated overrides.
EncodeEntry_PrintableFirst(b) ==
    IF b >= 33 /\ b <= 126 THEN make_utf8(<<b, 0>>)
    ELSE IF HasSpecial(b) THEN make_utf8(special_sequences[b] \o <<0>>)
    ELSE IF b >= 128 /\ b < 192 /\ b # 152 /\ b # 184 THEN make_utf8(<<\HC3, b, 0>>)
    ELSE IF b >= 192 /\ b # 184 THEN make_utf8(<<\HC4, b - 192 + 128, 0>>)
    ELSE <<>>

\* EncodeEntry with the 192..255 rule missing its + 128: the second byte of
\* 0xC0 is the terminator.
EncodeEntry_NoOffset(b) ==
    IF HasSpecial(b) THEN make_utf8(special_sequences[b] \o <<0>>)
    ELSE IF b >= 33 /\ b <= 126 /\ ~HasSpecial(b) THEN make_utf8(<<b, 0>>)
    ELSE IF b >= 128 /\ b < 192 /\ b # 152 /\ b # 184 THEN make_utf8(<<\HC3, b, 0>>)
    ELSE IF b >= 192 /\ b # 184 THEN make_utf8(<<\HC4, b - 192, 0>>)
    ELSE <<>>

\* One iteration of the loop that builds the encode table.
EncodeEntry(b) ==
    IF HasSpecial(b) THEN make_utf8(special_sequences[b] \o <<0>>)
    ELSE IF b >= 33 /\ b <= 126 /\ ~HasSpecial(b) THEN make_utf8(<<b, 0>>)
    ELSE IF b >= 128 /\ b < 192 /\ b # 152 /\ b # 184 THEN make_utf8(<<\HC3, b, 0>>)
    ELSE IF b >= 192 /\ b # 184 THEN make_utf8(<<\HC4, b - 192 + 128, 0>>)
    ELSE <<>>

BuildEncodeTable == [b \in Byte |-> EncodeEntry(b)]

\* The loop that builds the decode table, byte values in increasing order:
\* every byte value with a non-empty Sequence writes its key, and of two byte
\* values with the same key the later (larger) one is what the entry keeps.
DecodeKey(enc, b) == utf8_hash(enc[b], Len(enc[b]))

BuildDecodeTable(enc) ==
    LET coded == {b \in Byte : Len(enc[b]) > 0}
        keys == {DecodeKey(enc, b) : b \in coded}
    IN  [table |-> [k \in keys |->
                       CHOOSE b \in coded :
                          /\ DecodeKey(enc, b) = k
                          /\ \A c \in coded : DecodeKey(enc, c) = k => c <= b],
         valid |-> keys]

BuiltDecodeTable == BuildDecodeTable(BuildEncodeTable)

\* utf8_sequence_length without the 3-byte case.
utf8_sequence_length_NoThree(first_byte) ==
    IF first_byte < \H80 THEN 1
    ELSE IF first_byte < \HF0 THEN 2
    ELSE 4

utf8_sequence_length(first_byte) ==
    IF first_byte < \H80 THEN 1
    ELSE IF first_byte < \HE0 THEN 2
    ELSE IF first_byte < \HF0 THEN 3
    ELSE 4


(***************************************************************************)
(* encode_data, clean_decode_input, decode_data, format_output.  They read *)
(* the tables of the current state.                                        *)
(***************************************************************************)
\* The iterations lo..hi of encode_data's loop, in order, on the buffer
\* output; an overflow exit ends them.  The range is run as its first half
\* and then its second half.
RECURSIVE EncodeLoop(_, _, _, _)
EncodeLoop(in, lo, hi, output) ==
    IF lo > hi THEN output
    ELSE IF lo = hi
    THEN LET seq == encode_table[in[lo]]
         IN  IF Len(seq) > 0 THEN buffer_append(output, seq) ELSE output
    ELSE LET mid == (lo + hi) \div 2
             o == EncodeLoop(in, lo, mid, output)
         IN  IF o.ok THEN EncodeLoop(in, mid + 1, hi, o) ELSE o

\* encode_data with the loop starting at the second byte.
encode_data_SkipFirst(in) == EncodeLoop(in, 2, Len(in), buffer_init(Len(in) * 3))

encode_data(in) == EncodeLoop(in, 1, Len(in), buffer_init(Len(in) * 3))

\* IsStripped without the carriage return.
IsStripped_NoCR(c) == c = \H20 \/ c = \H09 \/ c = \H0A

IsStripped(c) == c = \H20 \/ c = \H09 \/ c = \H0A \/ c = \H0D

\* The iterations lo..hi of clean_decode_input's loop, in order, on the
\* buffer output; an overflow exit ends them.  The range is run as its first
\* half and then its second half.
RECURSIVE CleanLoop(_, _, _, _)
CleanLoop(in, lo, hi, output) ==
    IF lo > hi THEN output
    ELSE IF lo = hi
    THEN IF ~IsStripped(in[lo]) THEN buffer_append_char(output, in[lo])
         ELSE output
    ELSE LET mid == (lo + hi) \div 2
             o == CleanLoop(in, lo, mid, output)
         IN  IF o.ok THEN CleanLoop(in, mid + 1, hi, o) ELSE o

clean_decode_input(in) == CleanLoop(in, 1, Len(in), buffer_init(Len(in)))

\* The inner for loop of decode_data at scan position pos (0-based), from
\* length len down: the first length whose key is present, or 0.  A uint8_t
\* len outside 1..3 ends the loop at once.
RECURSIVE TryLengths(_, _, _)
TryLengths(in, pos, len) ==
    IF ~(len >= 1 /\ len <= 3) THEN 0
    ELSE IF pos + len <= Len(in)
            /\ utf8_hash(SubSeq(in, pos + 1, pos + len), len) \in decode_table_valid
         THEN len
         ELSE TryLengths(in, pos, (len - 1) % 256)

DecodeLookup(hash) == IF hash \in DOMAIN decode_table THEN decode_table[hash] ELSE 0

\* DecodeIter whose skip path does not advance the scan position.
DecodeIter_NoAdvance(in, pos, output) ==
    LET first_byte == in[pos + 1]
        est == utf8_sequence_length(first_byte)
        seq_len == IF pos + est > Len(in) THEN Len(in) - pos ELSE est
        len == TryLengths(in, pos, seq_len)
    IN  IF len > 0
        THEN [i |-> pos + len,
              out |-> buffer_append_char(output,
                          DecodeLookup(utf8_hash(SubSeq(in, pos + 1, pos + len), len)))]
        ELSE [i |-> pos, out |-> output]

\* One iteration of decode_data's while loop.
DecodeIter(in, pos, output) ==
    LET first_byte == in[pos + 1]
        est == utf8_sequence_length(first_byte)
        seq_len == IF pos + est > Len(in) THEN Len(in) - pos ELSE est
        len == TryLengths(in, pos, seq_len)
    IN  IF len > 0
        THEN [i |-> pos + len,
              out |-> buffer_append_char(output,
                          DecodeLookup(utf8_hash(SubSeq(in, pos + 1, pos + len), len)))]
        ELSE [i |-> pos + 1, out |-> output]

\* group_size * groups_per_line, an int product converted to size_t.  The
\* result is [big, val]: big means a value no buffer size reaches (a product
\* computed wide, or a negative int converted to size_t).  Signed overflow is
\* undefined: the builds either wrap to 32 bits or compute the product wide.
MulOverflows(a, b) == a > 0 /\ b > (INT_MAX \div a)

Low32(a, b) ==
    LET a0 == a % 65536
        a1 == a \div 65536
        b0 == b % 65536
        b1 == b \div 65536
        m  == (((a1 * b0) % 65536) + ((a0 * b1) % 65536)) % 65536
        t1 == (a0 \div 256) * b0
        t0 == (a0 % 256) * b0
        w  == ((t1 % 256) * 256) + t0
    IN  [hi |-> (m + (t1 \div 256) + (w \div 65536)) % 65536, lo |-> w % 65536]

IntProductOutcomes(a, b) ==
    IF ~MulOverflows(a, b) THEN { [big |-> FALSE, val |-> a * b] }
    ELSE LET r == Low32(a, b)
         IN  { IF r.hi >= 32768 THEN [big |-> TRUE, val |-> 0]
               ELSE [big |-> FALSE, val |-> r.hi * 65536 + r.lo],
               [big |-> TRUE, val |-> 0] }

RECURSIVE FormatChar(_, _, _, _, _)
FormatChar(data, pos, j, char_len, output) ==
    IF j < char_len /\ pos + j < Len(data)
    THEN LET o == buffer_append_char(output, data[pos + j + 1])
         IN  IF o.ok THEN FormatChar(data, pos, j + 1, char_len, o) ELSE o
    ELSE output

\* One iteration of format_output's while loop on the loop state
\* [pos, char_count, out]; it changes nothing once the loop has ended (the
\* position is at the end of the data, or the overflow exit was taken).
FormatIter(data, st, group_size, groups_per_line) ==
    IF ~(st.pos < Len(data)) \/ ~st.out.ok THEN st
    ELSE LET char_len == utf8_sequence_length(data[st.pos + 1])
             o1 == FormatChar(data, st.pos, 0, char_len, st.out)
             cc == st.char_count + 1
             p2 == st.pos + char_len
             o2 == IF cc % group_size = 0 /\ p2 < Len(data)
                   THEN LET sp == buffer_append_char(o1, \H20)
                        IN  IF (cc \div group_size) % groups_per_line = 0
                               /\ p2 < Len(data)
                            THEN buffer_append_char(sp, \H0A)
                            ELSE sp
                   ELSE o1
         IN  IF o2.ok
             THEN [pos |-> p2, char_count |-> cc, out |-> o2]
             ELSE [st EXCEPT !.out = o2]

\* The first n iterations of the while loop from the loop state st, run as
\* the first half of them and then the rest.  Every iteration moves pos
\* forward, so Len(data) iterations reach the end of the loop.
RECURSIVE FormatLoop(_, _, _, _, _)
FormatLoop(data, st, n, group_size, groups_per_line) ==
    IF n <= 0 THEN st
    ELSE IF n = 1 THEN FormatIter(data, st, group_size, groups_per_line)
    ELSE LET h == n \div 2
             s == FormatLoop(data, st, h, group_size, groups_per_line)
         IN  IF s.out.ok /\ s.pos < Len(data)
             THEN FormatLoop(data, s, n - h, group_size, groups_per_line)
             ELSE s

\* format_output with the product prod as the build computed it; fpe = TRUE
\* is the integer division by zero in the size estimate.
format_output(data, group_size, groups_per_line, prod) ==
    IF group_size = 0 \/ (~prod.big /\ prod.val = 0)
    THEN [fpe |-> TRUE, buf |-> buffer_init(0)]
    ELSE LET size == Len(data)
             estimated_size == size + (size \div group_size)
                               + (IF prod.big THEN 0 ELSE size \div prod.val)
         IN  [fpe |-> FALSE,
              buf |-> FormatLoop(data,
                                 [pos |-> 0, char_count |-> 0,
                                  out |-> buffer_init(estimated_size)],
                                 size, group_size, groups_per_line).out]

(***************************************************************************)
(* The disassembly collaborators.  objdump and cstool are external: what   *)
(* they print is any of ToolOutputs, already split into instruction lines  *)
(* (hex bytes, mnemonic) and section headers.                              *)
(***************************************************************************)
Receipt == <<\H20, \HF0, \H9F, \HA7, \HBE, \H20>>

Mnemonic == <<\H6E, \H6F, \H70>>

HeaderText == <<\H2E, \H74>>

ToolOutputs ==
    { <<>>,
      << [kind |-> "insn", bytes |-> <<\H90>>, text |-> Mnemonic] >>,
      << [kind |-> "header", bytes |-> <<>>, text |-> HeaderText],
         [kind |-> "insn", bytes |-> <<\H00, \H41>>, text |-> Mnemonic] >> }

RECURSIVE AppendEncoded(_, _, _)
AppendEncoded(buf, bytes, k) ==
    IF k > Len(bytes) THEN buf
    ELSE LET o == buffer_append(buf, encode_table[bytes[k]])
         IN  IF o.ok THEN AppendEncoded(o, bytes, k + 1) ELSE o

AppendInsn(buf, line) ==
    buffer_append(
        buffer_append(
            buffer_append(AppendEncoded(buf, line.bytes, 1), Receipt),
            line.text),
        <<\H0A>>)

\* The line loop of the objdump path: instruction lines and section headers.
RECURSIVE SmartAsmLines(_, _, _)
SmartAsmLines(lines, k, buf) ==
    IF k > Len(lines) THEN buf
    ELSE LET o == IF lines[k].kind = "insn" THEN AppendInsn(buf, lines[k])
                  ELSE buffer_append(
                           buffer_append(buffer_append(buf, <<\H23, \H20>>),
                                         lines[k].text),
                           <<\H0A>>)
         IN  IF o.ok THEN SmartAsmLines(lines, k + 1, o) ELSE o

\* The line loop of the cstool path: only instruction lines parse.
RECURSIVE AsmLines(_, _, _)
AsmLines(lines, k, buf) ==
    IF k > Len(lines) THEN buf
    ELSE LET o == IF lines[k].kind = "insn" THEN AppendInsn(buf, lines[k]) ELSE buf
         IN  IF o.ok THEN AsmLines(lines, k + 1, o) ELSE o

(***************************************************************************)
(* Options.                                                                *)
(***************************************************************************)
DefaultOpts ==
    [decode_mode |-> FALSE, passthrough_mode |-> FALSE, format_mode |-> FALSE,
     asm_mode |-> FALSE, smart_asm_mode |-> FALSE, help_mode |-> FALSE,
     format_group |-> 8, format_groups_per_line |-> 10, input_file |-> FALSE]

\* -f=NxM as sscanf("%dx%d") accepts it: the small pairs, the default, a pair
\* whose product does not fit an int, and a zero group size.
FormatSpecs ==
    ((1..MaxGroup) \X (1..MaxGroup)) \cup { <<8, 10>>, <<65536, 65536>>, <<0, 2>> }

\* What parse_options can return for a command line.  input_file is whether
\* a file was named.
OptionSets ==
    { [decode_mode |-> d, passthrough_mode |-> p, format_mode |-> f,
       asm_mode |-> a, smart_asm_mode |-> s, help_mode |-> h,
       format_group |-> fs[1], format_groups_per_line |-> fs[2],
       input_file |-> file] :
         d \in BOOLEAN, p \in BOOLEAN, f \in BOOLEAN, a \in BOOLEAN,
         s \in BOOLEAN, h \in BOOLEAN, file \in BOOLEAN, fs \in FormatSpecs }
    \cap { o \in [decode_mode : BOOLEAN, passthrough_mode : BOOLEAN,
                  format_mode : BOOLEAN, asm_mode : BOOLEAN,
                  smart_asm_mode : BOOLEAN, help_mode : BOOLEAN,
                  format_group : {fs[1] : fs \in FormatSpecs},
                  format_groups_per_line : {fs[2] : fs \in FormatSpecs},
                  input_file : BOOLEAN] :
             ~o.format_mode => (o.format_group = 8 /\ o.format_groups_per_line = 10) }

\* The command line of the process after the pipe: -d, reading the pipe.
PipeOpts == [DefaultOpts EXCEPT !.decode_mode = TRUE]

NoBuf == [data |-> <<>>, capacity |-> 0, ok |-> TRUE]

NoPrev ==
    [piped |-> FALSE, input |-> <<>>, format_mode |-> FALSE,
     format_group |-> 0, format_groups_per_line |-> 0, pipe |-> <<>>]

EmptyTable == [b \in Byte |-> <<>>]

(***************************************************************************)
(* main()                                                                  *)
(***************************************************************************)
Init ==
    /\ pc = "start"
    /\ run = 1
    /\ encode_table = EmptyTable
    /\ decode_table = [k \in {} |-> 0]
    /\ decode_table_valid = {}
    /\ opts = DefaultOpts
    /\ tty = "unknown"
    /\ input = <<>>
    /\ cleaned = NoBuf
    /\ i = 0
    /\ decoded = NoBuf
    /\ encoded = NoBuf
    /\ formatted = NoBuf
    /\ stdout = <<>>
    /\ stderr = <<>>
    /\ status = "running"
    /\ prev = NoPrev

Exit(code) == pc' = "exit" /\ status' = code

\* InitTables that builds the encode table only and leaves the decode table
\* to be filled later.
InitTables_EncodeOnly ==
    /\ pc = "start"
    /\ encode_table' = BuildEncodeTable
    /\ pc' = "parse"
    /\ UNCHANGED <<run, decode_table, decode_table_valid, opts, tty, input,
                   cleaned, i, decoded, encoded, formatted, stdout, stderr,
                   status, prev>>

InitTables ==
    /\ pc = "start"
    /\ encode_table' = BuildEncodeTable
    /\ decode_table' = BuiltDecodeTable.table
    /\ decode_table_valid' = BuiltDecodeTable.valid
    /\ pc' = "parse"
    /\ UNCHANGED <<run, opts, tty, input, cleaned, i, decoded, encoded,
                   formatted, stdout, stderr, status, prev>>

ParseOptions ==
    /\ pc = "parse"
    /\ opts' \in (IF run = 1 THEN OptionSets ELSE {PipeOpts})
    /\ pc' = "validate"
    /\ UNCHANGED <<run, tables, tty, input, cleaned, i, decoded, encoded,
                   formatted, stdout, stderr, status, prev>>

\* An unknown option or a malformed -f argument: exit(1) inside parse_options.
ParseError ==
    /\ pc = "parse"
    /\ run = 1
    /\ Exit("exit 1")
    /\ UNCHANGED <<run, tables, opts, tty, input, cleaned, i, decoded, encoded,
                   formatted, stdout, stderr, prev>>

HelpExit ==
    /\ pc = "validate"
    /\ opts.help_mode
    /\ Exit("exit 0")
    /\ UNCHANGED <<run, tables, opts, tty, input, cleaned, i, decoded, encoded,
                   formatted, stdout, stderr, prev>>

ConflictExit ==
    /\ pc = "validate"
    /\ ~opts.help_mode
    /\ opts.asm_mode /\ opts.smart_asm_mode
    /\ Exit("exit 1")
    /\ UNCHANGED <<run, tables, opts, tty, input, cleaned, i, decoded, encoded,
                   formatted, stdout, stderr, prev>>

\* No file named and standard input is a terminal: usage, return 0.
TtyUsageExit ==
    /\ pc = "validate"
    /\ ~opts.help_mode
    /\ ~(opts.asm_mode /\ opts.smart_asm_mode)
    /\ ~opts.input_file
    /\ run = 1
    /\ tty' = "terminal"
    /\ Exit("exit 0")
    /\ UNCHANGED <<run, tables, opts, input, cleaned, i, decoded, encoded,
                   formatted, stdout, stderr, prev>>

\* read_file: the named file, or standard input when it is no terminal.
ReadInput ==
    /\ pc = "validate"
    /\ ~opts.help_mode
    /\ ~(opts.asm_mode /\ opts.smart_asm_mode)
    /\ tty' = IF opts.input_file THEN tty ELSE "pipe"
    /\ input' \in (IF prev.piped THEN {prev.pipe} ELSE Inputs)
    /\ pc' = "mode"
    /\ UNCHANGED <<run, tables, opts, cleaned, i, decoded, encoded, formatted,
                   stdout, stderr, status, prev>>

\* read_file cannot open the named file: exit(1).
ReadError ==
    /\ pc = "validate"
    /\ ~opts.help_mode
    /\ ~(opts.asm_mode /\ opts.smart_asm_mode)
    /\ opts.input_file
    /\ Exit("exit 1")
    /\ UNCHANGED <<run, tables, opts, tty, input, cleaned, i, decoded, encoded,
                   formatted, stdout, stderr, prev>>

\* Decode mode: the input is sanitized and decode_data starts on the result.
CleanInput ==
    /\ pc = "mode"
    /\ opts.decode_mode
    /\ LET c == clean_decode_input(input)
       IN  /\ cleaned' = c
           /\ IF c.ok
              THEN /\ decoded' = buffer_init(Len(c.data))
                   /\ i' = 0
                   /\ pc' = "decode"
                   /\ status' = status
              ELSE /\ Exit("exit 1")
                   /\ UNCHANGED <<decoded, i>>
    /\ UNCHANGED <<run, tables, opts, tty, input, encoded, formatted, stdout,
                   stderr, prev>>

DecodeStep ==
    /\ pc = "decode"
    /\ i < Len(cleaned.data)
    /\ LET r == DecodeIter(cleaned.data, i, decoded)
       IN  /\ decoded' = r.out
           /\ IF r.out.ok
              THEN i' = r.i /\ UNCHANGED <<pc, status>>
              ELSE Exit("exit 1") /\ UNCHANGED i
    /\ UNCHANGED <<run, tables, opts, tty, input, cleaned, encoded, formatted,
                   stdout, stderr, prev>>

DecodeWrite ==
    /\ pc = "decode"
    /\ ~(i < Len(cleaned.data))
    /\ stdout' = stdout \o decoded.data
    /\ pc' = "done"
    /\ status' = "exit 0"
    /\ UNCHANGED <<run, tables, opts, tty, input, cleaned, i, decoded, encoded,
                   formatted, stderr, prev>>

\* Encode mode: with --passthrough the input goes to standard output first.
PassthroughCopy ==
    /\ pc = "mode"
    /\ ~opts.decode_mode
    /\ stdout' = IF opts.passthrough_mode THEN stdout \o input ELSE stdout
    /\ pc' = "asm"
    /\ UNCHANGED <<run, tables, opts, tty, input, cleaned, i, decoded, encoded,
                   formatted, stderr, status, prev>>

SmartAsmNoFile ==
    /\ pc = "asm"
    /\ opts.smart_asm_mode
    /\ ~opts.input_file
    /\ Exit("exit 1")
    /\ UNCHANGED <<run, tables, opts, tty, input, cleaned, i, decoded, encoded,
                   formatted, stdout, stderr, prev>>

SmartAsmNoTool ==
    /\ pc = "asm"
    /\ opts.smart_asm_mode
    /\ opts.input_file
    /\ Exit("exit 1")
    /\ UNCHANGED <<run, tables, opts, tty, input, cleaned, i, decoded, encoded,
                   formatted, stdout, stderr, prev>>

\* objdump ran: its lines are written, and main goes on to encode the input.
SmartAsm ==
    /\ pc = "asm"
    /\ opts.smart_asm_mode
    /\ opts.input_file
    /\ \E lines \in ToolOutputs :
         LET out == SmartAsmLines(lines, 1, buffer_init(Len(input) * 10 + 1024))
         IN  IF out.ok
             THEN /\ IF opts.passthrough_mode
                     THEN stderr' = stderr \o out.data /\ UNCHANGED stdout
                     ELSE stdout' = stdout \o out.data /\ UNCHANGED stderr
                  /\ pc' = "encode"
                  /\ UNCHANGED status
             ELSE Exit("exit 1") /\ UNCHANGED <<stdout, stderr>>
    /\ UNCHANGED <<run, tables, opts, tty, input, cleaned, i, decoded, encoded,
                   formatted, prev>>

AsmNoFile ==
    /\ pc = "asm"
    /\ ~opts.smart_asm_mode
    /\ opts.asm_mode
    /\ ~opts.input_file
    /\ Exit("exit 1")
    /\ UNCHANGED <<run, tables, opts, tty, input, cleaned, i, decoded, encoded,
                   formatted, stdout, stderr, prev>>

\* cstool is missing: a warning, and main goes on to encode the input.
AsmNoTool ==
    /\ pc = "asm"
    /\ ~opts.smart_asm_mode
    /\ opts.asm_mode
    /\ opts.input_file
    /\ pc' = "encode"
    /\ UNCHANGED <<run, tables, opts, tty, input, cleaned, i, decoded, encoded,
                   formatted, stdout, stderr, status, prev>>

\* cstool ran: its lines are written to standard output and main returns 0.
Asm ==
    /\ pc = "asm"
    /\ ~opts.smart_asm_mode
    /\ opts.asm_mode
    /\ opts.input_file
    /\ \E lines \in ToolOutputs :
         LET out == AsmLines(lines, 1, buffer_init(Len(input) * 10 + 1024))
         IN  IF out.ok
             THEN /\ stdout' = stdout \o out.data
                  /\ pc' = "done"
                  /\ status' = "exit 0"
             ELSE Exit("exit 1") /\ UNCHANGED stdout
    /\ UNCHANGED <<run, tables, opts, tty, input, cleaned, i, decoded, encoded,
                   formatted, stderr, prev>>

NoAsm ==
    /\ pc = "asm"
    /\ ~opts.smart_asm_mode
    /\ ~opts.asm_mode
    /\ pc' = "encode"
    /\ UNCHANGED <<run, tables, opts, tty, input, cleaned, i, decoded, encoded,
                   formatted, stdout, stderr, status, prev>>

Encode ==
    /\ pc = "encode"
    /\ LET e == encode_data(input)
       IN  /\ encoded' = e
           /\ IF e.ok
              THEN /\ pc' = IF opts.format_mode THEN "format" ELSE "write"
                   /\ UNCHANGED status
              ELSE Exit("exit 1")
    /\ UNCHANGED <<run, tables, opts, tty, input, cleaned, i, decoded,
                   formatted, stdout, stderr, prev>>

Format ==
    /\ pc = "format"
    /\ \E prod \in IntProductOutcomes(opts.format_group, opts.format_groups_per_line) :
         LET f == format_output(encoded.data, opts.format_group,
                                opts.format_groups_per_line, prod)
         IN  IF f.fpe
             THEN /\ pc' = "exit"
                  /\ status' = "SIGFPE"
                  /\ UNCHANGED formatted
             ELSE /\ formatted' = f.buf
                  /\ IF f.buf.ok
                     THEN pc' = "write" /\ UNCHANGED status
                     ELSE Exit("exit 1")
    /\ UNCHANGED <<run, tables, opts, tty, input, cleaned, i, decoded, encoded,
                   stdout, stderr, prev>>

WriteOutput ==
    /\ pc = "write"
    /\ LET output == IF opts.format_mode THEN formatted.data ELSE encoded.data
       IN  IF opts.passthrough_mode
           THEN stderr' = stderr \o output /\ UNCHANGED stdout
           ELSE stdout' = stdout \o output /\ UNCHANGED stderr
    /\ pc' = "done"
    /\ status' = "exit 0"
    /\ UNCHANGED <<run, tables, opts, tty, input, cleaned, i, decoded, encoded,
                   formatted, prev>>

\* The shell pipe  printable_binary [-f[=NxM]] [file] | printable_binary -d :
\* a fresh process whose standard input is what the first one wrote.
Pipe ==
    /\ pc = "done"
    /\ run = 1
    /\ ~opts.decode_mode /\ ~opts.passthrough_mode
    /\ ~opts.asm_mode /\ ~opts.smart_asm_mode
    /\ prev' = [piped |-> TRUE, input |-> input, format_mode |-> opts.format_mode,
                format_group |-> opts.format_group,
                format_groups_per_line |-> opts.format_groups_per_line,
                pipe |-> stdout]
    /\ run' = 2
    /\ pc' = "start"
    /\ encode_table' = EmptyTable
    /\ decode_table' = [k \in {} |-> 0]
    /\ decode_table_valid' = {}
    /\ opts' = DefaultOpts
    /\ tty' = "unknown"
    /\ input' = <<>>
    /\ cleaned' = NoBuf
    /\ i' = 0
    /\ decoded' = NoBuf
    /\ encoded' = NoBuf
    /\ formatted' = NoBuf
    /\ stdout' = <<>>
    /\ stderr' = <<>>
    /\ status' = "running"

Next ==
    \/ InitTables
    \/ ParseOptions
    \/ ParseError
    \/ HelpExit
    \/ ConflictExit
    \/ TtyUsageExit
    \/ ReadInput
    \/ ReadError
    \/ CleanInput
    \/ DecodeStep
    \/ DecodeWrite
    \/ PassthroughCopy
    \/ SmartAsmNoFile
    \/ SmartAsmNoTool
    \/ SmartAsm
    \/ AsmNoFile
    \/ AsmNoTool
    \/ Asm
    \/ NoAsm
    \/ Encode
    \/ Format
    \/ WriteOutput
    \/ Pipe

Spec == Init /\ [][Next]_vars

(***************************************************************************)
(* Properties.                                                             *)
(***************************************************************************)
Whitespace == {\H20, \H09, \H0A, \H0D}

NotWhitespace(c) == c \notin Whitespace

\* encode_data has returned in this process.
EncodeReturned == encoded # NoBuf /\ encoded.ok

\* The total length of the Sequences of B[lo], ..., B[hi].
RECURSIVE SeqLengths(_, _, _)
SeqLengths(B, lo, hi) ==
    IF lo > hi THEN 0
    ELSE IF lo = hi THEN Len(encode_table[B[lo]])
    ELSE SeqLengths(B, lo, (lo + hi) \div 2)
         + SeqLengths(B, ((lo + hi) \div 2) + 1, hi)

\* The byte offset in the encoder output of the Sequence of the k-th byte of B.
SeqOffset(B, k) == SeqLengths(B, 1, k - 1)

\* The second process has decoded what the first one wrote.
PipedDone == run = 2 /\ pc = "done" /\ prev.piped

\* C1: decoding the encoder's output of a buffer B gives B back: the same
\* length and the same bytes in the same order.
C1_RoundTrip ==
    (PipedDone /\ ~prev.format_mode)
        => /\ cleaned.data = prev.pipe
           /\ Len(decoded.data) = Len(prev.input)
           /\ decoded.data = prev.input
           /\ stdout = prev.input

C1_Witness ==
    /\ PipedDone /\ ~prev.format_mode
    /\ prev.input = <<\H00, \H41, \H80, \HC0, \H01>>
    /\ decoded.data = prev.input

\* format_output was called with positive group sizes in this process (it
\* has returned, or the process died in it).
FormatCalled ==
    /\ encoded # NoBuf
    /\ opts.format_mode
    /\ opts.format_group >= 1 /\ opts.format_groups_per_line >= 1
    /\ pc \in {"write", "done", "exit"}

\* C2: for every buffer B and all group sizes g >= 1, n >= 1, formatting the
\* encoder output, sanitizing it and decoding it gives B back: format_output
\* returns, and the second process writes B.
C2_FormatRoundTrip ==
    /\ FormatCalled => status \notin {"SIGFPE", "exit 1"}
    /\ (PipedDone /\ prev.format_mode)
          => /\ decoded.data = prev.input
             /\ stdout = prev.input

\* The part of C2 that holds: whenever format_output returns, the round trip
\* through the sanitizer and the decoder gives B back.
FormatRoundTripWhenReturned ==
    (PipedDone /\ prev.format_mode)
        => /\ decoded.data = prev.input
           /\ cleaned.data = SelectSeq(prev.pipe, NotWhitespace)
           /\ stdout = prev.input

FormatRoundTripReached ==
    /\ PipedDone /\ prev.format_mode
    /\ prev.format_group = 1 /\ prev.format_groups_per_line = 2
    /\ prev.input = <<\H00, \H41, \H80, \HC0, \H01>>
    /\ Len(prev.pipe) > Len(cleaned.data)

\* C3: once init_tables has run, every byte value has a Sequence of 1 to 3 bytes.
C3_Complete ==
    pc # "start" => \A b \in Byte : Len(encode_table[b]) \in 1..3

C3_Witness ==
    /\ pc = "parse"
    /\ encode_table[\H20] = <<\HE2, \H90, \HA3>>
    /\ encode_table[\H2C] = <<\H2C>>
    /\ encode_table[191] = <<\HC3, \HBF>>
    /\ encode_table[255] = <<\HC4, \HBF>>

\* C4: once init_tables has run, two different byte values have different
\* Sequences: the 256 byte values have 256 Sequences.
C4_Injective ==
    pc # "start" => Cardinality({encode_table[b] : b \in Byte}) = Cardinality(Byte)

C4_Witness ==
    /\ pc = "parse"
    /\ encode_table[128] = <<\HC3, \H80>>
    /\ encode_table[192] = <<\HC4, \H80>>
    /\ encode_table[152] = <<\HC5, \H8C>>

\* C5: the encoder's output is the Sequences of the input's bytes one after
\* the other in input order: the k-th Sequence lies at the offset that is the
\* sum of the lengths before it, and nothing else is in the output.
C5_EncodeConcat ==
    EncodeReturned
        => /\ Len(encoded.data) = SeqOffset(input, Len(input) + 1)
           /\ \A k \in 1..Len(input) :
                 SubSeq(encoded.data, SeqOffset(input, k) + 1,
                        SeqOffset(input, k + 1)) = encode_table[input[k]]

C5_Witness ==
    /\ pc = "write"
    /\ input = <<\H00, \H41, \H80, \HC0, \H01>>
    /\ encoded.data = <<\HE2, \H88, \H85, \H41, \HC3, \H80, \HC4, \H80, \HC2, \HAF>>

\* What the next iteration of decode_data's loop does in this state.
NextIter == DecodeIter(cleaned.data, i, decoded)

\* C6: decode_data ends on every input: while bytes remain, the next
\* iteration moves the scan position forward by at least one and not past the
\* end of the input, and appends within the buffer; an iteration or the
\* return is always possible; the loop leaves only by returning (never by an
\* error exit); and the output never holds more bytes than the input.
C6_DecodeTerminates ==
    /\ []((pc = "decode" /\ i < Len(cleaned.data))
            => /\ NextIter.i > i
               /\ NextIter.i <= Len(cleaned.data)
               /\ NextIter.out.ok)
    /\ [][(pc = "decode" /\ pc' = "decode") => i' > i]_vars
    /\ [][pc = "decode" => pc' \in {"decode", "done"}]_vars
    /\ [](pc = "decode"
            => /\ decoded.ok
               /\ i <= Len(cleaned.data)
               /\ Len(decoded.data) <= i
               /\ ENABLED (DecodeStep \/ DecodeWrite))
    /\ []((pc = "done" /\ opts.decode_mode)
            => /\ status = "exit 0"
               /\ i = Len(cleaned.data)
               /\ Len(decoded.data) <= Len(cleaned.data))

C6_Witness ==
    /\ pc = "done" /\ opts.decode_mode /\ run = 1
    /\ cleaned.data = <<\HF0, \H41, \H41, \H41>>
    /\ decoded.data = <<\H41, \H41, \H41>>

\* The separator the formatter owes after the j-th of k Sequences.
Separator(j, k, g, n) ==
    IF j % g = 0 /\ j < k
    THEN <<\H20>> \o (IF (j \div g) % n = 0 THEN <<\H0A>> ELSE <<>>)
    ELSE <<>>

RECURSIVE ExpectedFormat(_, _, _, _)
ExpectedFormat(B, j, g, n) ==
    IF j > Len(B) THEN <<>>
    ELSE encode_table[B[j]] \o Separator(j, Len(B), g, n)
         \o ExpectedFormat(B, j + 1, g, n)

\* C7: for every encoder output and all g >= 1, n >= 1, format_output returns
\* the Sequences in order, each whole, with a space after the j-th exactly
\* when g divides j and j is not the last, and a line break after that space
\* exactly when g*n divides j.
C7_FormatLayout ==
    FormatCalled
        => /\ status \notin {"SIGFPE", "exit 1"}
           /\ formatted.data
                = ExpectedFormat(input, 1, opts.format_group,
                                 opts.format_groups_per_line)

\* The part of C7 that holds: whenever format_output returns, its output has
\* that layout.
FormatLayoutWhenReturned ==
    (FormatCalled /\ pc \in {"write", "done"})
        => /\ formatted.ok
           /\ formatted.data
                = ExpectedFormat(input, 1, opts.format_group,
                                 opts.format_groups_per_line)

FormatLayoutReached ==
    /\ FormatCalled /\ pc = "write"
    /\ input = Repeat(\H41, 20)
    /\ opts.format_group = 8 /\ opts.format_groups_per_line = 10
    /\ formatted.data
         = Repeat(\H41, 8) \o <<\H20>> \o Repeat(\H41, 8) \o <<\H20>>
           \o Repeat(\H41, 4)

C10_TablesBuiltOnce ==
    /\ [](pc = "start"
            => /\ input = <<>> /\ stdout = <<>> /\ stderr = <<>>
               /\ cleaned = NoBuf /\ decoded = NoBuf
               /\ encoded = NoBuf /\ formatted = NoBuf)
    /\ [](pc # "start"
            => /\ encode_table = BuildEncodeTable
               /\ decode_table = BuiltDecodeTable.table
               /\ decode_table_valid = BuiltDecodeTable.valid)
    /\ [][(tables' # tables) => (pc = "start" \/ pc' = "start")]_vars

C10_Witness ==
    /\ pc = "done" /\ run = 2
    /\ encode_table = BuildEncodeTable
    /\ decode_table_valid = BuiltDecodeTable.valid
    /\ Len(stdout) > 0

\* The command line asks for both disassembly modes, or for a disassembly
\* mode without naming an input file.
UsageError ==
    \/ opts.asm_mode /\ opts.smart_asm_mode
    \/ (opts.asm_mode \/ opts.smart_asm_mode) /\ ~opts.input_file

\* C11: whatever the other flags are, and whether standard input is a
\* terminal or a pipe, a run given both --asm and --smart-asm, or a
\* disassembly mode without a named input file, writes nothing to standard
\* output and ends with a non-zero exit status.
C11_UsageErrorAborts ==
    (UsageError /\ pc \in {"validate", "mode", "asm", "decode", "done", "exit"})
        => /\ stdout = <<>>
           /\ pc \in {"done", "exit"} => status = "exit 1"

\* The part of C11 that holds: without --help, both disassembly modes
\* together end the run with status 1 before anything is read or written;
\* and in encode mode without --passthrough, on a pipe, a disassembly mode
\* without a file ends the run with status 1 and nothing on standard output.
UsageErrorAbortsPlain ==
    /\ (pc \in {"done", "exit"} /\ ~opts.help_mode
          /\ opts.asm_mode /\ opts.smart_asm_mode)
          => status = "exit 1" /\ stdout = <<>> /\ input = <<>>
    /\ (pc \in {"done", "exit"} /\ UsageError /\ ~opts.help_mode
          /\ ~opts.decode_mode /\ ~opts.passthrough_mode /\ tty = "pipe")
          => status = "exit 1" /\ stdout = <<>>

UsageErrorAbortsReached ==
    /\ pc = "exit" /\ status = "exit 1"
    /\ opts.asm_mode /\ ~opts.smart_asm_mode /\ ~opts.input_file
    /\ ~opts.passthrough_mode /\ tty = "pipe"
    /\ input = <<\H00, \H41, \H80, \HC0, \H01>>

\* C12: the encode table follows the priority rules: a byte with a curated
\* override has exactly that override; any other byte in 33..126 has itself
\* as its Sequence, in 128..191 the bytes 0xC3, b, and in 192..255 the bytes
\* 0xC4, b - 192 + 128.  0x00, 0x41, 0x80 and 0xC0 have the Sequences
\* E2 88 85, 41, C3 80 and C4 80, and decode_data turns each of the four
\* Sequences back into its byte.  The table is examined as init_tables
\* leaves it; no later step changes it (C10).
C12_EncodeRules ==
    pc = "parse"
        => /\ \A b \in Byte :
                /\ b \in DOMAIN special_sequences
                      => encode_table[b] = special_sequences[b]
                /\ (b \notin DOMAIN special_sequences /\ b \in 33..126)
                      => encode_table[b] = <<b>>
                /\ (b \notin DOMAIN special_sequences /\ b \in 128..191)
                      => encode_table[b] = <<\HC3, b>>
                /\ (b \notin DOMAIN special_sequences /\ b \in 192..255)
                      => encode_table[b] = <<\HC4, b - 192 + 128>>
           /\ encode_table[\H00] = <<\HE2, \H88, \H85>>
           /\ encode_table[\H41] = <<\H41>>
           /\ encode_table[\H80] = <<\HC3, \H80>>
           /\ encode_table[\HC0] = <<\HC4, \H80>>
           /\ \A b \in {\H00, \H41, \H80, \HC0} :
                LET r == DecodeIter(encode_table[b], 0, buffer_init(3))
                IN  r.i = Len(encode_table[b]) /\ r.out.data = <<b>>

C12_Witness ==
    /\ pc = "parse" /\ run = 2
    /\ prev.input = <<\H00, \H41, \H80, \HC0, \H01>>
    /\ prev.pipe = <<\HE2, \H88, \H85, \H41, \HC3, \H80, \HC4, \H80, \HC2, \HAF>>
    /\ encode_table[93] = <<\HE2, \H9F, \HA7>>
    /\ encode_table[94] = <<94>>
    /\ DecodeIter(encode_table[\HC0], 0, buffer_init(3)).out.data = <<\HC0>>

\* The bytes remaining at the scan position, and the candidate length there:
\* the estimate from the leading byte, clamped to the bytes remaining.
Remaining == Len(cleaned.data) - i

Candidate ==
    LET b == cleaned.data[i + 1]
        est == IF b < \H80 THEN 1 ELSE IF b < \HE0 THEN 2
               ELSE IF b < \HF0 THEN 3 ELSE 4
    IN  IF est > Remaining THEN Remaining ELSE est

\* The len bytes at the scan position are the key of a decode table entry.
Hit(len) ==
    utf8_hash(SubSeq(cleaned.data, i + 1, i + len), len) \in decode_table_valid

\* The lengths of 1..3, not above the candidate length, that hit.
Hits == {len \in 1..3 : len <= Candidate /\ Hit(len)}

Longest(S) == CHOOSE m \in S : \A x \in S : x <= m

\* The next iteration emits the byte of the longest hit and advances by its
\* length, or skips one byte and emits nothing when no length hits.
TakesLongestHit ==
    IF Hits # {}
    THEN LET len == Longest(Hits)
         IN  /\ NextIter.i = i + len
             /\ NextIter.out.data
                  = decoded.data
                    \o <<decode_table[utf8_hash(SubSeq(cleaned.data, i + 1, i + len),
                                                len)]>>
    ELSE NextIter.i = i + 1 /\ NextIter.out.data = decoded.data

\* C13: at every scan position decode_data tries the lengths from the
\* clamped estimate down to 1, never a 4-byte key, emits the byte of the
\* first length that hits and advances by it, and skips one byte without
\* output only if none of the lengths 1..3 available there hits; what it
\* does there is the same when the bytes after the third are cut off.
C13_LongestMatch ==
    (pc = "decode" /\ i < Len(cleaned.data))
        => /\ TakesLongestHit
           /\ Remaining > 3
                => LET cut == DecodeIter(SubSeq(cleaned.data, 1, i + 3), i, decoded)
                   IN  cut.i = NextIter.i /\ cut.out.data = NextIter.out.data

\* The part of C13 that holds: the rule is followed wherever the candidate
\* length is at most 3; with a leading byte of 0xF0 or more and four bytes
\* remaining no length is tried and one byte is skipped.
LongestMatchUpToThree ==
    (pc = "decode" /\ i < Len(cleaned.data))
        => IF Candidate <= 3 THEN TakesLongestHit
           ELSE NextIter.i = i + 1 /\ NextIter.out.data = decoded.data

LongestMatchUpToThreeReached ==
    /\ pc = "decode" /\ i = 0
    /\ cleaned.data = <<\HE2, \H88, \H85, \H41, \HC3, \H80, \HC4, \H80>>
    /\ Hits = {3}
    /\ NextIter.i = 3 /\ NextIter.out.data = <<\H00>>

\* The iteration at the scan position emits a byte.
Emits == Len(NextIter.out.data) > Len(decoded.data)

Emitted == NextIter.out.data[Len(NextIter.out.data)]

Consumed == SubSeq(cleaned.data, i + 1, NextIter.i)

\* C14: the decode map is the exact inverse of the encode table: whenever
\* decode_data emits a byte b at a scan position, the bytes it consumes there
\* are the Sequence of b; bytes that are no Sequence of the table yield no
\* output byte.
C14_ExactInverse ==
    (pc = "decode" /\ i < Len(cleaned.data))
        => /\ Emits => Consumed = encode_table[Emitted]
           /\ (\A b \in Byte : Consumed # encode_table[b]) => ~Emits

\* The part of C14 that holds: on what the encoder wrote, every iteration
\* emits a byte and consumes exactly that byte's Sequence.
ExactInverseOnEncoderOutput ==
    (run = 2 /\ pc = "decode" /\ i < Len(cleaned.data))
        => Emits /\ Consumed = encode_table[Emitted]

ExactInverseOnEncoderOutputReached ==
    /\ run = 2 /\ pc = "decode" /\ i = 4
    /\ prev.input = <<\H00, \H41, \H80, \HC0, \H01>>
    /\ Emitted = \H80 /\ Consumed = <<\HC3, \H80>>

\* The proper byte-prefixes of the Sequences of the table (a Sequence has at
\* most 3 bytes, a proper prefix 1 or 2).
ProperPrefixes ==
    UNION {{SubSeq(encode_table[b], 1, k) : k \in 1..(Len(encode_table[b]) - 1)}
              : b \in Byte}

\* The length decode_data estimates from the first byte of a Sequence.
EstimateOf(seq) == utf8_sequence_length(seq[1])

\* C15: no Sequence of the encode table is a proper byte-prefix of the
\* Sequence of another byte value, and every Sequence has the length that
\* decode_data estimates from its leading byte; so on what the encoder wrote
\* the lookup hits at the estimated length, the Sequence of the byte itself,
\* and never has to shrink onto a shorter entry.  The table is examined as
\* init_tables leaves it; no later step changes it (C10).
C15_PrefixFree ==
    /\ pc = "parse"
          => /\ ProperPrefixes \cap {encode_table[b] : b \in Byte} = {}
             /\ \A b \in Byte : EstimateOf(encode_table[b]) = Len(encode_table[b])
    /\ (run = 2 /\ pc = "decode" /\ i < Len(cleaned.data))
          => /\ NextIter.i - i = utf8_sequence_length(cleaned.data[i + 1])
             /\ Emits

C15_Witness ==
    /\ run = 2 /\ pc = "decode" /\ i = 0
    /\ prev.input = <<\H00, \H41, \H80, \HC0, \H01>>
    /\ encode_table[\HE2] = <<\HC4, \HA2>>
    /\ NextIter.i = 3 /\ Emitted = \H00

\* The decode key of byte value b: utf8_hash of its Sequence at its length.
KeyOf(b) == utf8_hash(encode_table[b], Len(encode_table[b]))

\* C16: the decode keys of the 256 Sequences are pairwise distinct, whatever
\* their lengths, and after init_tables every byte value b has its key
\* present in the decode table with b as the entry; so has b = 0, whose entry
\* 0 differs from an absent key (such as 0) by the presence flag only.  The
\* tables are examined as init_tables leaves them; no later step changes
\* them (C10).
C16_KeysDistinct ==
    pc = "parse"
        => /\ Cardinality({KeyOf(b) : b \in Byte}) = Cardinality(Byte)
           /\ \A b \in Byte :
                 KeyOf(b) \in decode_table_valid /\ decode_table[KeyOf(b)] = b
           /\ KeyOf(0) \in decode_table_valid
           /\ decode_table[KeyOf(0)] = 0
           /\ 0 \notin decode_table_valid
           /\ DecodeLookup(0) = decode_table[KeyOf(0)]

C16_Witness ==
    /\ pc = "parse" /\ run = 1
    /\ KeyOf(0) = 8709 /\ decode_table[8709] = 0
    /\ KeyOf(\H41) = \H41 /\ decode_table[\H41] = \H41
    /\ KeyOf(\H80) = 50048 /\ decode_table[50048] = \H80
    /\ Cardinality(decode_table_valid) = 256

\* A buffer that was pre-sized with capacity cap (buffer_init turns 0 into
\* INITIAL_BUFFER_SIZE) and holds no more than cap bytes.
Within(buf, cap) ==
    /\ buf.ok
    /\ buf.capacity = (IF cap = 0 THEN INITIAL_BUFFER_SIZE ELSE cap)
    /\ Len(buf.data) <= cap

\* size + size/g + size/(g*n); the last term is written (size/g)/n, the same
\* number for positive g and n.
FormatBound(size, g, n) == size + (size \div g) + ((size \div g) \div n)

\* encode_data, clean_decode_input and decode_data stay within their buffers.
CodecWithinCapacity ==
    /\ encoded # NoBuf => Within(encoded, 3 * Len(input))
    /\ cleaned # NoBuf => Within(cleaned, Len(input))
    /\ decoded # NoBuf => Within(decoded, Len(cleaned.data))

WithinCapacityWhenSized ==
    /\ CodecWithinCapacity
    /\ encoded.ok /\ cleaned.ok /\ decoded.ok /\ formatted.ok
    /\ (FormatCalled /\ formatted # NoBuf)
          => Within(formatted,
                    FormatBound(Len(encoded.data), opts.format_group,
                                opts.format_groups_per_line))

WithinCapacityReached ==
    /\ FormatCalled /\ pc = "write"
    /\ opts.format_group = 1 /\ opts.format_groups_per_line = 1
    /\ input = <<\H41, \H41>>
    /\ formatted.capacity = 6
    /\ formatted.data = <<\H41, \H20, \H0A, \H41>>
====
